---- MODULE Spec2Model ----
(***************************************************************************)
(* Session keys (patches/session-keys) and the game systems                *)
(* (programs-ecs/systems) of magic-baser-solana.                           *)
(*                                                                         *)
(* One action is one instruction executed by the host ledger: the account  *)
(* validation Anchor generates from the #[derive(Accounts)] struct, the    *)
(* handler, and the exit step (persist / close).  An instruction that      *)
(* returns Err is rolled back by the host, so it leaves the ledger as it   *)
(* was.                                                                    *)
(***************************************************************************)
EXTENDS Integers, Sequences, FiniteSets, TLC

VARIABLES
    tokens,     \* session-token accounts: address -> [data, lamports]
    balance,    \* lamports of the system-owned wallet accounts
    now,        \* Clock::get()?.unix_timestamp
    lastCall,   \* the last step: the operation, its result, and on success the
                \* token account it created, destroyed or was presented with
    game_session,   \* the GameSession component
    player,         \* the Player component
    leaderboard     \* the LeaderboardEntry component

svars == <<tokens, balance, now, lastCall>>
gvars == <<game_session, player, leaderboard>>
vars == <<tokens, balance, now, lastCall, game_session, player, leaderboard>>

----------------------------------------------------------------------------
(* Option<T> *)
None == <<>>
Some(x) == <<x>>
unwrap_or(o, d) == IF o = None THEN d ELSE o[1]

----------------------------------------------------------------------------
(* Program constants *)
LAMPORTS_PER_SOL == 1000000000
SEED_PREFIX == "session_token"
ID == "KeyspM2ssCJbqUhQ4k7sveSiY4WjnYsrXkC8oDbwde5"
\* SessionToken::LEN = 8 + size_of::<Self>(): three 32-byte keys and an i64
LEN == 8 + (32 + 32 + 32 + 8)
DEFAULT_VALIDITY == 60 * 60 * 1
MAX_VALIDITY == 60 * 60 * 24 * 7
DEFAULT_TOP_UP == LAMPORTS_PER_SOL \div 100

----------------------------------------------------------------------------
(* Bounds of the model *)
GenesisTime == 1000          \* the clock's value in the initial state
Rent == 8000000              \* the host's rent-exempt deposit for LEN bytes
ExplicitLamports == 6000000  \* the funding amount a caller supplies explicitly

\* the instants the clock takes: the initial one and the default expiry seen from it
Instants == {GenesisTime, GenesisTime + DEFAULT_VALIDITY}

Wallets == {"alice", "bob", "payer", "sess"}
Programs == {"game", "other"}
Keys == Wallets \cup Programs

Authorities == {"alice", "bob"}
SessionSigners == {"sess"}
Payers == {"payer"}
Callers == {"bob", "payer"}

InitBalance ==
    [w \in Wallets |->
        CASE w = "alice" -> Rent + DEFAULT_TOP_UP
          [] w = "payer" -> Rent + ExplicitLamports
          [] OTHER       -> 0]

----------------------------------------------------------------------------
(* Address binding *)
find_program_address(seeds, program_id) == [program |-> program_id, seeds |-> seeds]

SessionTokenSeeds(target_program, session_signer, authority) ==
    <<SEED_PREFIX, target_program, session_signer, authority>>

SessionTokenAddress(target_program, session_signer, authority) ==
    find_program_address(SessionTokenSeeds(target_program, session_signer, authority), ID)

----------------------------------------------------------------------------
(* SessionToken *)
SessionToken(authority, target_program, session_signer, valid_until) ==
    [authority |-> authority, target_program |-> target_program,
     session_signer |-> session_signer, valid_until |-> valid_until]

\* is_expired with the expiry instant itself still counted as valid
is_expired_inclusive(self, clock) == clock <= self.valid_until

\* fn is_expired(&self): Ok(now < self.valid_until)
is_expired(self, clock) == clock < self.valid_until

Ledger(tk, bal) == [tokens |-> tk, balance |-> bal]
Ok(L) == [err |-> "Ok", tokens |-> L.tokens, balance |-> L.balance]
Err(e, L) == [err |-> e, tokens |-> L.tokens, balance |-> L.balance]

\* Account::default() of a freshly allocated SessionToken account
DefaultPubkey == "11111111111111111111111111111111"
DefaultSessionToken == SessionToken(DefaultPubkey, DefaultPubkey, DefaultPubkey, 0)

----------------------------------------------------------------------------
(* Host primitives used by the program *)

\* system_program::transfer: fails when `from` cannot cover the amount
transfer(L, from, to, amount) ==
    IF L.balance[from] < amount
    THEN Err("InsufficientFunds", L)
    ELSE Ok(Ledger(L.tokens,
                   [L.balance EXCEPT ![from] = @ - amount, ![to] = @ + amount]))

\* init_if_needed instead of init: an existing account is taken as it is
init_account_if_needed(L, address, payer) ==
    IF address \in DOMAIN L.tokens
    THEN Ok(L)
    ELSE IF L.balance[payer] < Rent
    THEN Err("InsufficientFunds", L)
    ELSE Ok(Ledger((address :> [data |-> [authority |-> "11111111111111111111111111111111",
                                         target_program |-> "11111111111111111111111111111111",
                                         session_signer |-> "11111111111111111111111111111111",
                                         valid_until |-> 0],
                                lamports |-> Rent]) @@ L.tokens,
                   [L.balance EXCEPT ![payer] = @ - Rent]))

\* #[account(init, seeds = [...], bump, payer = .., space = SessionToken::LEN)]:
\* allocates the account at the derived address, owned by this program, and
\* moves the rent-exempt deposit from the payer into it.
init_account(L, address, payer) ==
    IF address \in DOMAIN L.tokens
    THEN Err("AccountAlreadyInUse", L)
    ELSE IF L.balance[payer] < Rent
    THEN Err("InsufficientFunds", L)
    ELSE Ok(Ledger((address :> [data |-> DefaultSessionToken, lamports |-> Rent]) @@ L.tokens,
                   [L.balance EXCEPT ![payer] = @ - Rent]))

\* the closed account refunded and its data zeroed, the account left in place
close_account_zeroes_data(L, address, destination) ==
    Ok(Ledger([L.tokens EXCEPT ![address] = [data |-> DefaultSessionToken, lamports |-> 0]],
              [L.balance EXCEPT ![destination] = @ + L.tokens[address].lamports]))

\* close = authority: the account's lamports go to the destination and the
\* account ceases to exist.
close_account(L, address, destination) ==
    Ok(Ledger([a \in DOMAIN L.tokens \ {address} |-> L.tokens[a]],
              [L.balance EXCEPT ![destination] = @ + L.tokens[address].lamports]))

\* without the rollback: what an instruction did before failing stays
Atomic_keeps_partial_effects(L, r) == r

\* An instruction either fully applies or has no effect at all.
Atomic(L, r) == IF r.err = "Ok" THEN r ELSE Err(r.err, L)

----------------------------------------------------------------------------
(* Creation *)

\* the default validity taken as one day
process_session_params_one_day(top_up, valid_until, clock) ==
    [top_up |-> unwrap_or(top_up, FALSE),
     valid_until |-> unwrap_or(valid_until, clock + 60 * 60 * 24)]

process_session_params(top_up, valid_until, clock) ==
    [top_up |-> unwrap_or(top_up, FALSE),
     valid_until |-> unwrap_or(valid_until, clock + DEFAULT_VALIDITY)]

\* the bound compared with < instead of <=
ValidityAllowed_strict(valid_until, clock) == valid_until < clock + MAX_VALIDITY

\* the bound computed for eight days
ValidityAllowed_eight_days(valid_until, clock) == valid_until <= clock + 60 * 60 * 24 * 8

\* the require! left out
ValidityAllowed_unchecked(valid_until, clock) == TRUE

\* require!(valid_until <= Clock::get()?.unix_timestamp + (60 * 60 * 24 * 7), ..)
ValidityAllowed(valid_until, clock) == valid_until <= clock + MAX_VALIDITY

\* the explicit amount ignored
TopUpAmount_ignores_explicit(lamports) == DEFAULT_TOP_UP

\* lamports.unwrap_or(LAMPORTS_PER_SOL / 100)
TopUpAmount(lamports) == unwrap_or(lamports, DEFAULT_TOP_UP)

\* session_token.set_inner(SessionToken { .. })
set_inner(L, session_token, value) ==
    Ledger([L.tokens EXCEPT ![session_token].data = value], L.balance)

create_session_token_internal(L, session_token, authority, target_program, session_signer, payer, session_signer_account, top_up, valid_until, lamports, clock) ==
    IF ~ValidityAllowed(valid_until, clock)
    THEN Err("ValidityTooLong", L)
    ELSE LET W == set_inner(L, session_token,
                            SessionToken(authority, target_program, session_signer, valid_until))
         IN  IF top_up
             THEN transfer(W, payer, session_signer_account, TopUpAmount(lamports))
             ELSE Ok(W)

\* #[derive(Accounts)] struct CreateSessionToken: the two Signer fields are
\* extracted first, then the init constraint runs, then the other constraints.
CreateSessionToken(L, c) ==
    LET address == SessionTokenAddress(c.target_program, c.session_signer, c.authority)
    IN  IF c.session_signer \notin c.signers \/ c.authority \notin c.signers
        THEN Err("AccountNotSigner", L)
        ELSE LET r == init_account(L, address, c.authority)
             IN  IF r.err # "Ok" THEN r
                 ELSE IF c.target_program \notin Programs
                 THEN Err("ConstraintExecutable", r)
                 ELSE r

create_session_token_handler(L, c, top_up, valid_until, lamports, clock) ==
    create_session_token_internal(
        L,
        SessionTokenAddress(c.target_program, c.session_signer, c.authority),
        c.authority, c.target_program, c.session_signer,
        c.authority, c.session_signer,
        top_up, valid_until, lamports, clock)

\* pub fn create_session(ctx, top_up, valid_until, lamports)
create_session(L, c, clock) ==
    LET ctx == CreateSessionToken(L, c)
        p   == process_session_params(c.top_up, c.valid_until, clock)
    IN  Atomic(L, IF ctx.err # "Ok" THEN ctx
                  ELSE create_session_token_handler(ctx, c, p.top_up, p.valid_until,
                                                    c.lamports, clock))

\* payer = authority in the init constraint of the payer-funded entry point
CreateSessionTokenWithPayer_authority_pays(L, c) ==
    LET address == SessionTokenAddress(c.target_program, c.session_signer, c.authority)
    IN  IF c.session_signer \notin c.signers \/ c.payer \notin c.signers
           \/ c.authority \notin c.signers
        THEN Err("AccountNotSigner", L)
        ELSE LET r == init_account(L, address, c.authority)
             IN  IF r.err # "Ok" THEN r
                 ELSE IF c.target_program \notin Programs
                 THEN Err("ConstraintExecutable", r)
                 ELSE r

\* authority declared as a plain account instead of a Signer
CreateSessionTokenWithPayer_authority_unsigned(L, c) ==
    LET address == SessionTokenAddress(c.target_program, c.session_signer, c.authority)
    IN  IF c.session_signer \notin c.signers \/ c.payer \notin c.signers
        THEN Err("AccountNotSigner", L)
        ELSE LET r == init_account(L, address, c.payer)
             IN  IF r.err # "Ok" THEN r
                 ELSE IF c.target_program \notin Programs
                 THEN Err("ConstraintExecutable", r)
                 ELSE r

\* #[derive(Accounts)] struct CreateSessionTokenWithPayer
CreateSessionTokenWithPayer(L, c) ==
    LET address == SessionTokenAddress(c.target_program, c.session_signer, c.authority)
    IN  IF c.session_signer \notin c.signers \/ c.payer \notin c.signers
           \/ c.authority \notin c.signers
        THEN Err("AccountNotSigner", L)
        ELSE LET r == init_account(L, address, c.payer)
             IN  IF r.err # "Ok" THEN r
                 ELSE IF c.target_program \notin Programs
                 THEN Err("ConstraintExecutable", r)
                 ELSE r

\* the payer's key stored as the record's authority
create_session_token_with_payer_handler_records_payer(L, c, top_up, valid_until, lamports, clock) ==
    create_session_token_internal(
        L,
        SessionTokenAddress(c.target_program, c.session_signer, c.authority),
        c.payer, c.target_program, c.session_signer,
        c.payer, c.session_signer,
        top_up, valid_until, lamports, clock)

create_session_token_with_payer_handler(L, c, top_up, valid_until, lamports, clock) ==
    create_session_token_internal(
        L,
        SessionTokenAddress(c.target_program, c.session_signer, c.authority),
        c.authority, c.target_program, c.session_signer,
        c.payer, c.session_signer,
        top_up, valid_until, lamports, clock)

\* pub fn create_session_with_payer(ctx, top_up, valid_until, lamports)
create_session_with_payer(L, c, clock) ==
    LET ctx == CreateSessionTokenWithPayer(L, c)
        p   == process_session_params(c.top_up, c.valid_until, clock)
    IN  Atomic(L, IF ctx.err # "Ok" THEN ctx
                  ELSE create_session_token_with_payer_handler(ctx, c, p.top_up,
                                                               p.valid_until, c.lamports,
                                                               clock))

----------------------------------------------------------------------------
(* Revocation *)

\* #[derive(Accounts)] struct RevokeSessionToken: session_token must be an
\* initialized account of this program; has_one = authority; the seeds are
\* re-derived from the account's own stored fields.
RevokeSessionToken(L, c) ==
    IF c.session_token \notin DOMAIN L.tokens
    THEN Err("AccountNotInitialized", L)
    ELSE LET data == L.tokens[c.session_token].data
         IN  IF data.authority # c.authority
             THEN Err("ConstraintHasOne", L)
             ELSE IF SessionTokenAddress(data.target_program, data.session_signer,
                                         data.authority) # c.session_token
             THEN Err("ConstraintSeeds", L)
             ELSE Ok(L)

\* pub fn revoke_session_token_handler(_: Context<RevokeSessionToken>) -> Ok(())
revoke_session_token_handler(L) == Ok(L)

\* the close constraint left out: the handler returns Ok and nothing happens
revoke_session_without_close(L, c) ==
    LET ctx == RevokeSessionToken(L, c)
    IN  Atomic(L, IF ctx.err # "Ok" THEN ctx ELSE revoke_session_token_handler(ctx))

\* close = caller: the deposit goes to whoever sent the instruction
revoke_session_refunds_caller(L, c) ==
    LET ctx == RevokeSessionToken(L, c)
    IN  Atomic(L, IF ctx.err # "Ok" THEN ctx
                  ELSE close_account(revoke_session_token_handler(ctx),
                                     c.session_token, c.caller))

\* pub fn revoke_session(ctx); on exit the close = authority constraint runs
revoke_session(L, c) ==
    LET ctx == RevokeSessionToken(L, c)
    IN  Atomic(L, IF ctx.err # "Ok" THEN ctx
                  ELSE LET r == revoke_session_token_handler(ctx)
                       IN  IF r.err # "Ok" THEN r
                           ELSE close_account(r, c.session_token, c.authority))

----------------------------------------------------------------------------
(* Validation *)

\* Account<'info, SessionToken>: an account of this program, with its key
Account(L, address) == [key |-> address, data |-> L.tokens[address].data]

ValidityChecker(session_token, session_signer, authority, target_program) ==
    [session_token |-> session_token, session_signer |-> session_signer,
     authority |-> authority, target_program |-> target_program]

\* the expiry looked at before the address
validate_expiry_first(self, ctx, clock) ==
    IF ~is_expired(self, clock)
    THEN "Ok(false)"
    ELSE IF find_program_address(
                SessionTokenSeeds(ctx.target_program, ctx.session_signer, ctx.authority),
                ID) # ctx.session_token.key
    THEN "Err(InvalidToken)"
    ELSE "Ok(true)"

\* the address derived from the token's own stored fields
validate_own_fields(self, ctx, clock) ==
    IF find_program_address(
           SessionTokenSeeds(self.target_program, self.session_signer, self.authority),
           ID) # ctx.session_token.key
    THEN "Err(InvalidToken)"
    ELSE IF is_expired(self, clock) THEN "Ok(true)" ELSE "Ok(false)"

\* the address re-derived under the target program's id
validate_under_target_program(self, ctx, clock) ==
    IF find_program_address(
           SessionTokenSeeds(ctx.target_program, ctx.session_signer, ctx.authority),
           ctx.target_program) # ctx.session_token.key
    THEN "Err(InvalidToken)"
    ELSE IF is_expired(self, clock) THEN "Ok(true)" ELSE "Ok(false)"

\* pub fn validate(&self, ctx: ValidityChecker) -> Result<bool>
validate(self, ctx, clock) ==
    LET pda == find_program_address(
                   SessionTokenSeeds(ctx.target_program, ctx.session_signer, ctx.authority),
                   ID)
    IN  IF pda # ctx.session_token.key
        THEN "Err(InvalidToken)"
        ELSE IF is_expired(self, clock) THEN "Ok(true)" ELSE "Ok(false)"

\* a missing token reported as an invalid one
is_valid_missing_is_invalid(s, clock) ==
    IF s.session_token = None
    THEN "Err(InvalidToken)"
    ELSE (IF find_program_address(
                 SessionTokenSeeds(s.target_program, s.session_signer, s.session_authority),
                 ID) # s.session_token[1].key
          THEN "Err(InvalidToken)"
          ELSE IF s.session_token[1].data.valid_until > clock THEN "Ok(true)"
          ELSE "Ok(false)")

\* trait Session: fn is_valid(&self) -> Result<bool>; s holds the four accessors
is_valid(s, clock) ==
    IF s.session_token = None
    THEN "Err(NoToken)"
    ELSE LET session_token == s.session_token[1]
             validity_ctx == ValidityChecker(session_token, s.session_signer,
                                             s.session_authority, s.target_program)
         IN  validate(session_token.data, validity_ctx, clock)

\* The contexts a caller can present in a ledger state: the token accessor
\* yields nothing or an existing SessionToken account.
Sessions(L) ==
    [session_token : {None} \cup {Some(Account(L, a)) : a \in DOMAIN L.tokens},
     session_signer : {"sess", "bob"},
     session_authority : Authorities,
     target_program : Programs]

----------------------------------------------------------------------------
(* Bytes: instruction arguments arrive as Vec<u8> *)

u16_from_le_bytes(b) == b[1] + 256 * b[2]
u32_from_le_bytes(b) == b[1] + 256 * (b[2] + 256 * (b[3] + 256 * b[4]))
u64_from_le_bytes(b) ==
    b[1] + 256 * (b[2] + 256 * (b[3] + 256 * (b[4] + 256 * (b[5] + 256 * (b[6]
         + 256 * (b[7] + 256 * b[8]))))))

\* what a client writes
u16_to_le_bytes(n) == <<n % 256, n \div 256>>
u32_to_le_bytes(n) == <<n % 256, (n \div 256) % 256, (n \div 65536) % 256, n \div 16777216>>
u64_to_le_bytes(n) == u32_to_le_bytes(n) \o <<0, 0, 0, 0>>
bool_to_byte(v) == IF v THEN 1 ELSE 0

Slice(b, from, to) == SubSeq(b, from + 1, to)

\* u8::is_ascii_alphanumeric
is_ascii_alphanumeric(b) == b \in 48..57 \/ b \in 65..90 \/ b \in 97..122

RECURSIVE Filter(_, _)
Filter(b, i) ==
    IF i > Len(b) THEN <<>>
    ELSE (IF is_ascii_alphanumeric(b[i]) THEN <<b[i]>> ELSE <<>>) \o Filter(b, i + 1)

\* the bytes of the character names the program knows
antonio == <<97, 110, 116, 111, 110, 105, 111>>
pasqualina == <<112, 97, 115, 113, 117, 97, 108, 105, 110, 97>>
gennaro == <<103, 101, 110, 110, 97, 114, 111>>
mortaccio == <<109, 111, 114, 116, 97, 99, 99, 105, 111>>
vitalis == <<118, 105, 116, 97, 108, 105, 115>>
imelda == <<105, 109, 101, 108, 100, 97>>
\* String::from("[\"imelda\"]")
starter_characters == <<91, 34>> \o imelda \o <<34, 93>>

\* Pubkey <-> [u8; 32]
KeyByte(k) ==
    CASE k = "alice" -> 1 [] k = "bob" -> 2 [] k = "payer" -> 3 [] k = "sess" -> 4
      [] k = "game" -> 5 [] k = "other" -> 6 [] OTHER -> 0
to_bytes(k) == [i \in 1..32 |-> KeyByte(k)]
\* Pubkey::new_from_array
new_from_array(b) ==
    IF \E k \in Keys : to_bytes(k) = b
    THEN CHOOSE k \in Keys : to_bytes(k) = b
    ELSE "unknown"

----------------------------------------------------------------------------
(* Components (#[component] #[derive(Default)]) *)

GameSession ==
    [player |-> None, character_id |-> <<>>, hp |-> 0, max_hp |-> 0, level |-> 0,
     xp |-> 0, gold_earned |-> 0, time_survived |-> 0, wave |-> 0, is_active |-> FALSE,
     is_dead |-> FALSE, started_at |-> 0, kills |-> 0]

Player ==
    [authority |-> None, name |-> <<>>, owned_characters |-> <<>>, revives |-> 0,
     total_gold |-> 0, games_played |-> 0, best_time |-> 0, best_wave |-> 0,
     created_at |-> 0, last_character_id |-> <<>>]

LeaderboardEntry ==
    [player |-> None, name |-> <<>>, best_time |-> 0, best_wave |-> 0, total_gold |-> 0,
     games_played |-> 0, updated_at |-> 0]

Components(gs, pl, lb) == [game_session |-> gs, player |-> pl, leaderboard |-> lb]
OkC(C) == [err |-> "Ok", game_session |-> C.game_session, player |-> C.player,
           leaderboard |-> C.leaderboard]
ErrC(e, C) == [err |-> e, game_session |-> C.game_session, player |-> C.player,
               leaderboard |-> C.leaderboard]

\* widths: u16::MAX as it is; the caps of the u32 games_played and of the u64
\* total_gold are scaled down to the counters the model can reach
U16_MAX == 65535
MaxGamesPlayed == 2
MaxTotalGold == 12
saturating_add(a, b, max) == IF a + b > max THEN max ELSE a + b
saturating_sub(a, b) == IF a - b < 0 THEN 0 ELSE a - b

----------------------------------------------------------------------------
(* Systems *)

\* fn get_character_hp(character_id: &str) -> (u16, u16)
get_character_hp(character_id) ==
    CASE character_id = antonio -> <<120, 120>>
      [] character_id = pasqualina -> <<80, 80>>
      [] character_id = gennaro -> <<110, 110>>
      [] character_id = mortaccio -> <<90, 90>>
      [] character_id = vitalis -> <<95, 95>>
      [] OTHER -> <<100, 100>>

\* start_game::execute
start_game(C, args, clock) ==
    LET character_id ==
            IF Len(args) >= 4
            THEN LET len == u32_from_le_bytes(Slice(args, 0, 4))
                 IN  IF len > 0 /\ len < 25 /\ Len(args) >= 4 + len
                     THEN Filter(Slice(args, 4, 4 + len), 1)
                     ELSE imelda
            ELSE imelda
        stats == get_character_hp(character_id)
    IN  OkC([C EXCEPT !.game_session =
                [@ EXCEPT !.character_id = character_id,
                          !.hp = stats[1],
                          !.max_hp = stats[2],
                          !.level = 1,
                          !.xp = 0,
                          !.gold_earned = 0,
                          !.time_survived = 0,
                          !.wave = 1,
                          !.is_active = TRUE,
                          !.is_dead = FALSE,
                          !.started_at = clock,
                          !.kills = 0]])

\* UpdateStatsArgs::try_from_slice: 21 bytes, the last one a bool
UpdateStatsArgs(args) ==
    IF Len(args) # 21 \/ args[21] \notin {0, 1}
    THEN None
    ELSE Some([hp |-> u16_from_le_bytes(Slice(args, 0, 2)),
               xp |-> u32_from_le_bytes(Slice(args, 2, 6)),
               gold_earned |-> u32_from_le_bytes(Slice(args, 6, 10)),
               time_survived |-> u32_from_le_bytes(Slice(args, 10, 14)),
               wave |-> args[15],
               kills |-> u32_from_le_bytes(Slice(args, 15, 19)),
               level |-> args[20],
               is_dead |-> args[21] = 1])

\* fn calculate_level(xp: u32) -> u8
calculate_level(xp) ==
    IF xp < 100 THEN 1
    ELSE IF xp < 250 THEN 2
    ELSE IF xp < 500 THEN 3
    ELSE IF xp < 1000 THEN 4
    ELSE IF xp < 2000 THEN 5
    ELSE IF xp < 4000 THEN 6
    ELSE IF xp < 8000 THEN 7
    ELSE IF xp < 16000 THEN 8
    ELSE IF xp < 32000 THEN 9
    ELSE 10

\* update_stats without the require! on is_active
update_stats_without_active_check(C, bytes) ==
    LET parsed == UpdateStatsArgs(bytes)
    IN  IF parsed = None THEN ErrC("InvalidArguments", C)
        ELSE LET args == parsed[1]
                 session == [C.game_session EXCEPT
                                !.hp = args.hp,
                                !.xp = args.xp,
                                !.gold_earned = args.gold_earned,
                                !.time_survived = args.time_survived,
                                !.wave = args.wave,
                                !.kills = args.kills,
                                !.is_dead = args.is_dead]
                 new_level == calculate_level(args.xp)
             IN  OkC([C EXCEPT !.game_session =
                         IF new_level > session.level
                         THEN [session EXCEPT !.level = new_level,
                                              !.max_hp = saturating_add(@, 10, U16_MAX)]
                         ELSE session])

\* update_stats::execute
update_stats(C, bytes) ==
    LET parsed == UpdateStatsArgs(bytes)
    IN  IF parsed = None THEN ErrC("InvalidArguments", C)
        ELSE IF ~C.game_session.is_active THEN ErrC("SessionNotActive", C)
        ELSE LET args == parsed[1]
                 session == [C.game_session EXCEPT
                                !.hp = args.hp,
                                !.xp = args.xp,
                                !.gold_earned = args.gold_earned,
                                !.time_survived = args.time_survived,
                                !.wave = args.wave,
                                !.kills = args.kills,
                                !.is_dead = args.is_dead]
                 new_level == calculate_level(args.xp)
             IN  OkC([C EXCEPT !.game_session =
                         IF new_level > session.level
                         THEN [session EXCEPT !.level = new_level,
                                              !.max_hp = saturating_add(@, 10, U16_MAX)]
                         ELSE session])

\* use_revive without the require! on player.revives
use_revive_without_revives_check(C, args) ==
    IF ~C.game_session.is_active THEN ErrC("SessionNotActive", C)
    ELSE IF ~C.game_session.is_dead THEN ErrC("NotDead", C)
    ELSE OkC([C EXCEPT !.player.revives = saturating_sub(@, 1),
                       !.game_session.is_dead = FALSE,
                       !.game_session.hp = C.game_session.max_hp \div 2])

\* use_revive::execute
use_revive(C, args) ==
    IF ~C.game_session.is_active THEN ErrC("SessionNotActive", C)
    ELSE IF ~C.game_session.is_dead THEN ErrC("NotDead", C)
    ELSE IF ~(C.player.revives > 0) THEN ErrC("NoRevives", C)
    ELSE OkC([C EXCEPT !.player.revives = saturating_sub(@, 1),
                       !.game_session.is_dead = FALSE,
                       !.game_session.hp = C.game_session.max_hp \div 2])

\* end_game that records the last run as the best one, better or not
end_game_overwrites_best(C, args) ==
    LET session == C.game_session
    IN  OkC([C EXCEPT
                !.player.best_wave = session.wave,
                !.player.best_time = session.time_survived,
                !.player.total_gold = saturating_add(@, session.gold_earned, MaxTotalGold),
                !.player.games_played = saturating_add(@, 1, MaxGamesPlayed),
                !.player.last_character_id = session.character_id,
                !.game_session.is_active = FALSE])

\* end_game::execute
end_game(C, args) ==
    LET session == C.game_session
    IN  OkC([C EXCEPT
                !.player.best_wave = IF session.wave > @ THEN session.wave ELSE @,
                !.player.best_time =
                    IF session.time_survived > @ THEN session.time_survived ELSE @,
                !.player.total_gold = saturating_add(@, session.gold_earned, MaxTotalGold),
                !.player.games_played = saturating_add(@, 1, MaxGamesPlayed),
                !.player.last_character_id = session.character_id,
                !.game_session.is_active = FALSE])

\* submit_score::execute
submit_score(C, args, clock) ==
    IF Len(args) < 49 THEN OkC(C)
    ELSE OkC([C EXCEPT !.leaderboard =
                [@ EXCEPT !.player = Some(new_from_array(Slice(args, 0, 32))),
                          !.best_time = u32_from_le_bytes(Slice(args, 32, 36)),
                          !.best_wave = args[37],
                          !.total_gold = u64_from_le_bytes(Slice(args, 37, 45)),
                          !.games_played = u32_from_le_bytes(Slice(args, 45, 49)),
                          !.updated_at = clock]])

\* InitPlayerArgs::try_from_slice: a u32 length and exactly that many bytes
InitPlayerArgs(args) ==
    IF Len(args) < 4 THEN None
    ELSE IF Len(args) # 4 + u32_from_le_bytes(Slice(args, 0, 4)) THEN None
    ELSE Some([name |-> Slice(args, 4, Len(args))])

\* init_player::execute
init_player(C, bytes, authority, clock) ==
    LET parsed == InitPlayerArgs(bytes)
    IN  IF parsed = None THEN ErrC("InvalidArguments", C)
        ELSE LET args == parsed[1]
             IN  IF ~(Len(args.name) <= 20) \/ Len(args.name) = 0
                 THEN ErrC("InvalidArguments", C)
                 ELSE OkC([C EXCEPT
                             !.player = [@ EXCEPT !.authority = Some(authority),
                                                  !.name = args.name,
                                                  !.owned_characters = starter_characters,
                                                  !.revives = 0,
                                                  !.total_gold = 0,
                                                  !.games_played = 0,
                                                  !.best_time = 0,
                                                  !.best_wave = 0,
                                                  !.created_at = clock],
                             !.leaderboard = [@ EXCEPT !.player = Some(authority),
                                                       !.name = args.name,
                                                       !.best_time = 0,
                                                       !.best_wave = 0,
                                                       !.total_gold = 0,
                                                       !.games_played = 0,
                                                       !.updated_at = clock]])

----------------------------------------------------------------------------
(* Inputs *)

\* The target and the signatures of a call: a program with every required
\* signature, a program with exactly one signature missing, or an account
\* that is not a program.
Shapes(required) ==
    {[target_program |-> "game", signers |-> required]}
    \cup {[target_program |-> "game", signers |-> required \ {k}] : k \in required}
    \cup {[target_program |-> "bob", signers |-> required]}

ValidUntils(clock) ==
    {None} \cup {Some(clock + d) : d \in {-1, MAX_VALIDITY, MAX_VALIDITY + 1}}

Fundings ==
    {[top_up |-> None, lamports |-> None],
     [top_up |-> Some(FALSE), lamports |-> Some(ExplicitLamports)],
     [top_up |-> Some(TRUE), lamports |-> None],
     [top_up |-> Some(TRUE), lamports |-> Some(ExplicitLamports)]}

CreateCall(sh, s, a, p, f, v) ==
    [target_program |-> sh.target_program, session_signer |-> s, authority |-> a,
     payer |-> p, signers |-> sh.signers, top_up |-> f.top_up, valid_until |-> v,
     lamports |-> f.lamports]

\* create_session: the authority is the payer
CreateSessionCalls(clock) ==
    UNION {{CreateCall(sh, x[1], x[2], x[2], f, v) :
                sh \in Shapes({x[1], x[2]}), f \in Fundings, v \in ValidUntils(clock)} :
           x \in SessionSigners \X Authorities}

CreateSessionWithPayerCalls(clock) ==
    UNION {{CreateCall(sh, x[1], x[2], x[3], f, v) :
                sh \in Shapes({x[1], x[2], x[3]}), f \in Fundings, v \in ValidUntils(clock)} :
           x \in SessionSigners \X Authorities \X Payers}

RevokeCalls ==
    [session_token : {SessionTokenAddress(t, s, a) :
                          t \in Programs, s \in SessionSigners, a \in Authorities},
     authority : Authorities,
     caller : Callers]

CallAddress(c) == SessionTokenAddress(c.target_program, c.session_signer, c.authority)

\* start_game: no argument, a known character, a name with a byte that is
\* filtered out, a length of zero
StartGameArgs ==
    {<<>>,
     u32_to_le_bytes(7) \o antonio,
     u32_to_le_bytes(8) \o <<97, 110, 45, 116>> \o <<111, 110, 105, 111>>,
     u32_to_le_bytes(0) \o antonio}

EncodeStats(a) ==
    u16_to_le_bytes(a.hp) \o u32_to_le_bytes(a.xp) \o u32_to_le_bytes(a.gold_earned)
    \o u32_to_le_bytes(a.time_survived) \o <<a.wave>> \o u32_to_le_bytes(a.kills)
    \o <<a.level>> \o <<bool_to_byte(a.is_dead)>>

Alive ==
    [hp |-> 60, xp |-> 120, gold_earned |-> 5, time_survived |-> 30, wave |-> 2,
     kills |-> 3, level |-> 2, is_dead |-> FALSE]
Dead ==
    [hp |-> 0, xp |-> 300, gold_earned |-> 7, time_survived |-> 90, wave |-> 3,
     kills |-> 9, level |-> 3, is_dead |-> TRUE]

\* update_stats: two well-formed reports, a truncated one, one with a bad bool
UpdateStatsBytes ==
    {EncodeStats(Alive), EncodeStats(Dead), <<1, 2, 3>>,
     SubSeq(EncodeStats(Alive), 1, 20) \o <<2>>}

\* submit_score: a full record and one that is too short
SubmitScoreArgs ==
    {to_bytes("alice") \o u32_to_le_bytes(90) \o <<3>> \o u64_to_le_bytes(12)
        \o u32_to_le_bytes(2),
     to_bytes("alice")}

\* init_player: a name, an empty name, a name of 21 bytes, trailing bytes
InitPlayerBytes ==
    {u32_to_le_bytes(6) \o imelda,
     u32_to_le_bytes(0),
     u32_to_le_bytes(21) \o imelda \o imelda \o imelda \o <<97, 98, 99>>,
     u32_to_le_bytes(2) \o imelda}

----------------------------------------------------------------------------
(* The state machine of the session-keys program *)

Init ==
    /\ tokens = <<>>
    /\ balance = InitBalance
    /\ now = GenesisTime
    /\ lastCall = [op |-> "init", result |-> "Ok", account |-> None]
    /\ game_session = GameSession
    /\ player = Player
    /\ leaderboard = LeaderboardEntry

Apply(op, account, r) ==
    /\ tokens' = r.tokens
    /\ balance' = r.balance
    /\ lastCall' = [op |-> op, result |-> r.err,
                    account |-> IF r.err = "Ok" THEN Some(account) ELSE None]
    /\ UNCHANGED now
    /\ UNCHANGED gvars

DoCreateSession ==
    \E c \in CreateSessionCalls(now) :
        LET r == create_session(Ledger(tokens, balance), c, now)
        IN  Apply("create_session", Account(r, CallAddress(c)), r)

DoCreateSessionWithPayer ==
    \E c \in CreateSessionWithPayerCalls(now) :
        LET r == create_session_with_payer(Ledger(tokens, balance), c, now)
        IN  Apply("create_session_with_payer", Account(r, CallAddress(c)), r)

DoRevokeSession ==
    \E c \in RevokeCalls :
        Apply("revoke_session", Account(Ledger(tokens, balance), c.session_token),
              revoke_session(Ledger(tokens, balance), c))

DoIsValid ==
    \E s \in Sessions(Ledger(tokens, balance)) :
        /\ lastCall' = [op |-> "is_valid", result |-> is_valid(s, now),
                        account |-> IF is_valid(s, now) \in {"Ok(true)", "Ok(false)"}
                                    THEN s.session_token ELSE None]
        /\ UNCHANGED <<tokens, balance, now>>
        /\ UNCHANGED gvars

\* a clock advance that also removes the records whose valid_until has passed
Tick_reaps_expired ==
    /\ \E t \in Instants : t > now /\ now' = t
    /\ tokens' = [a \in {b \in DOMAIN tokens : tokens[b].data.valid_until > now'}
                      |-> tokens[a]]
    /\ lastCall' = [op |-> "tick", result |-> "Ok", account |-> None]
    /\ UNCHANGED balance
    /\ UNCHANGED gvars

Tick ==
    /\ \E t \in Instants : t > now /\ now' = t
    /\ lastCall' = [op |-> "tick", result |-> "Ok", account |-> None]
    /\ UNCHANGED <<tokens, balance>>
    /\ UNCHANGED gvars

Next ==
    \/ DoCreateSession
    \/ DoCreateSessionWithPayer
    \/ DoRevokeSession
    \/ DoIsValid
    \/ Tick

Spec == Init /\ [][Next]_vars

----------------------------------------------------------------------------
(* The state machine of the game systems.  A system is applied to the       *)
(* components by a caller that presents a session context; the result of    *)
(* Session::is_valid for that context is recorded with the call.            *)

\* the ledger after alice created a token for the game with the defaults
GameInit ==
    /\ tokens = (SessionTokenAddress("game", "sess", "alice") :>
                    [data |-> SessionToken("alice", "game", "sess",
                                           GenesisTime + DEFAULT_VALIDITY),
                     lamports |-> Rent])
    /\ balance = [InitBalance EXCEPT !["alice"] = @ - Rent]
    /\ now = GenesisTime
    /\ lastCall = [op |-> "init", result |-> "Ok", account |-> None]
    /\ game_session = GameSession
    /\ player = Player
    /\ leaderboard = LeaderboardEntry

CurrentComponents == Components(game_session, player, leaderboard)

\* the session contexts presented to the game: with or without the token, by
\* the session signer, for the game, in the name of either authority
GameSessions(L) ==
    {s \in Sessions(L) : s.session_signer = "sess" /\ s.target_program = "game"}

\* the components are written back only when the system returns Ok
ApplySystem(op, s, r) ==
    /\ game_session' = IF r.err = "Ok" THEN r.game_session ELSE game_session
    /\ player' = IF r.err = "Ok" THEN r.player ELSE player
    /\ leaderboard' = IF r.err = "Ok" THEN r.leaderboard ELSE leaderboard
    /\ lastCall' = [op |-> op, result |-> r.err, account |-> None,
                    session |-> is_valid(s, now)]
    /\ UNCHANGED <<tokens, balance, now>>

DoStartGame ==
    \E s \in GameSessions(Ledger(tokens, balance)), args \in StartGameArgs :
        ApplySystem("start_game", s, start_game(CurrentComponents, args, now))

DoUpdateStats ==
    \E s \in GameSessions(Ledger(tokens, balance)), args \in UpdateStatsBytes :
        ApplySystem("update_stats", s, update_stats(CurrentComponents, args))

DoUseRevive ==
    \E s \in GameSessions(Ledger(tokens, balance)) :
        ApplySystem("use_revive", s, use_revive(CurrentComponents, <<>>))

DoEndGame ==
    \E s \in GameSessions(Ledger(tokens, balance)) :
        ApplySystem("end_game", s, end_game(CurrentComponents, <<>>))

DoSubmitScore ==
    \E s \in GameSessions(Ledger(tokens, balance)), args \in SubmitScoreArgs :
        ApplySystem("submit_score", s, submit_score(CurrentComponents, args, now))

DoInitPlayer ==
    \E s \in GameSessions(Ledger(tokens, balance)), args \in InitPlayerBytes :
        ApplySystem("init_player", s,
                    init_player(CurrentComponents, args, s.session_authority, now))

GameNext ==
    \/ DoStartGame
    \/ DoUpdateStats
    \/ DoUseRevive
    \/ DoEndGame
    \/ DoSubmitScore
    \/ DoInitPlayer

GameSpec == GameInit /\ [][GameNext]_vars

----------------------------------------------------------------------------
(* The creation calls a caller can make in the current state, each with the *)
(* result the entry point returns for it.                                    *)

CurrentLedger == Ledger(tokens, balance)

Creation(op, c) ==
    [op |-> op, c |-> c,
     r |-> IF op = "create_session" THEN create_session(CurrentLedger, c, now)
           ELSE create_session_with_payer(CurrentLedger, c, now)]

\* P holds of every creation call and its result
AllCreations(P(_)) ==
    /\ \A c \in CreateSessionCalls(now) : P(Creation("create_session", c))
    /\ \A c \in CreateSessionWithPayerCalls(now) :
           P(Creation("create_session_with_payer", c))

RequestedValidUntil(c) == unwrap_or(c.valid_until, now + DEFAULT_VALIDITY)
RequestedTopUp(c) == IF unwrap_or(c.top_up, FALSE) THEN TopUpAmount(c.lamports) ELSE 0

RequiredSigners(x) ==
    IF x.op = "create_session" THEN {x.c.session_signer, x.c.authority}
    ELSE {x.c.session_signer, x.c.authority, x.c.payer}

\* the call carries every signature its entry point requires and names a program
WellFormed(x) ==
    /\ RequiredSigners(x) \subseteq x.c.signers
    /\ x.c.target_program \in Programs

\* the payer's balance covers the storage deposit and the requested top-up
Funded(x) == balance[x.c.payer] >= Rent + RequestedTopUp(x.c)

Unchanged(r) == r.tokens = tokens /\ r.balance = balance

Stored(x) ==
    /\ x.r.err = "Ok"
    /\ CallAddress(x.c) \in DOMAIN x.r.tokens
    /\ x.r.tokens[CallAddress(x.c)].data =
           SessionToken(x.c.authority, x.c.target_program, x.c.session_signer,
                        RequestedValidUntil(x.c))

----------------------------------------------------------------------------
\* C1 (as stated): every creation call at a triple that holds no live token,
\* with valid_until <= now + 7 days, succeeds and stores exactly the supplied
\* authority, target_program, session_signer and valid_until.  Stated here for
\* the calls that carry all required signatures and name an executable target;
\* it still fails when the payer cannot fund the deposit or the top-up.
C1_AsStated ==
    LET P(x) == (/\ WellFormed(x)
                 /\ CallAddress(x.c) \notin DOMAIN tokens
                 /\ RequestedValidUntil(x.c) <= now + MAX_VALIDITY)
                => Stored(x)
    IN  AllCreations(P)

\* C1 (amended): every creation call at a triple that holds no live token that
\* carries the required signatures, names an executable target program and
\* whose payer's balance covers the storage deposit plus the top-up amount
\* when top_up is true, with any valid_until <= now + 7 days (values at or
\* before now included), succeeds and stores exactly the supplied authority,
\* target_program, session_signer and valid_until.
C1_CreationStoresSuppliedFields ==
    LET P(x) == (/\ WellFormed(x)
                 /\ Funded(x)
                 /\ CallAddress(x.c) \notin DOMAIN tokens
                 /\ RequestedValidUntil(x.c) <= now + MAX_VALIDITY)
                => Stored(x)
    IN  AllCreations(P)

\* a creation has just succeeded with a valid_until that is not after now
C1_Witness ==
    /\ lastCall.op \in {"create_session", "create_session_with_payer"}
    /\ lastCall.result = "Ok"
    /\ lastCall.account[1].data.valid_until <= now
    /\ tokens[lastCall.account[1].key].data = lastCall.account[1].data

----------------------------------------------------------------------------
\* the account validation of a creation call passes: signatures, free
\* address, payer able to fund the deposit, executable target
AccountsValid(x) ==
    /\ WellFormed(x)
    /\ CallAddress(x.c) \notin DOMAIN tokens
    /\ balance[x.c.payer] >= Rent

\* C2 (as stated): every creation call with valid_until > now + 7 days fails
\* with ValidityTooLong and has no effect: no record at the derived address
\* afterwards, no balance changed.  Stated here for the calls that carry all
\* required signatures and name an executable target; the error is another one
\* when the address is occupied or the payer cannot fund the deposit.
C2_AsStated ==
    LET P(x) == (/\ WellFormed(x)
                 /\ RequestedValidUntil(x.c) > now + MAX_VALIDITY)
                => /\ x.r.err = "ValidityTooLong"
                   /\ CallAddress(x.c) \notin DOMAIN x.r.tokens
                   /\ x.r.balance = balance
    IN  AllCreations(P)

\* C2 (amended): every creation call (either entry point) with valid_until >
\* now + 7 days fails and has no effect: records and balances (payer,
\* authority, session signer) are as before, so no record appears at the
\* derived address, also when top_up is true.  The failure is ValidityTooLong
\* whenever the call passes account validation (required signatures, free
\* derived address, payer able to fund the deposit, executable target);
\* otherwise it is the failure of account validation, which runs first.
C2_TooLongFailsWithoutEffect ==
    LET P(x) == (RequestedValidUntil(x.c) > now + MAX_VALIDITY)
                => /\ x.r.err # "Ok"
                   /\ Unchanged(x.r)
                   /\ AccountsValid(x) <=> x.r.err = "ValidityTooLong"
    IN  AllCreations(P)

\* a creation has just been refused for its validity while a top-up could
\* have been paid
C2_Witness ==
    /\ lastCall.op \in {"create_session", "create_session_with_payer"}
    /\ lastCall.result = "ValidityTooLong"
    /\ tokens = <<>>
    /\ balance = InitBalance

----------------------------------------------------------------------------
TripleOf(data) == <<data.target_program, data.session_signer, data.authority>>

\* C3: at most one live token exists per (target_program, session_signer,
\* authority) triple, and a creation by either entry point at a triple that
\* already holds a live token fails and leaves records and balances unchanged.
C3_OneLiveTokenPerTriple ==
    /\ \A a1 \in DOMAIN tokens, a2 \in DOMAIN tokens :
           TripleOf(tokens[a1].data) = TripleOf(tokens[a2].data) => a1 = a2
    /\ \A a \in DOMAIN tokens :
           tokens[a].data.target_program \in Programs /\ tokens[a].lamports = Rent
    /\ LET P(x) == (\E a \in DOMAIN tokens :
                        TripleOf(tokens[a].data) =
                            <<x.c.target_program, x.c.session_signer, x.c.authority>>)
                   => x.r.err # "Ok" /\ Unchanged(x.r)
       IN  AllCreations(P)

\* a creation has just failed because its address holds a live token
C3_Witness ==
    /\ lastCall.op \in {"create_session", "create_session_with_payer"}
    /\ lastCall.result = "AccountAlreadyInUse"
    /\ tokens # <<>>

----------------------------------------------------------------------------
\* the storage address of the triple a session context claims
ClaimedAddress(s) ==
    SessionTokenAddress(s.target_program, s.session_signer, s.session_authority)

\* the self-funded creation the authority of a destroyed record can make again
Recreate(data) ==
    [target_program |-> data.target_program, session_signer |-> data.session_signer,
     authority |-> data.authority, payer |-> data.authority,
     signers |-> {data.session_signer, data.authority},
     top_up |-> None, valid_until |-> None, lamports |-> None]

\* C4: after a successful revoke_session of a live token the record at its
\* address no longer exists, the balance of the authority recorded in the
\* token has increased by exactly the deposit the record held, and a
\* subsequent creation at the same triple succeeds: the address no longer
\* refuses a creation, and the authority can create the token again.
C4_RevokeDestroysAndRefunds ==
    \A c \in RevokeCalls :
        LET r == revoke_session(CurrentLedger, c)
        IN  r.err = "Ok" =>
              LET old == tokens[c.session_token]
                  after == Ledger(r.tokens, r.balance)
              IN  /\ c.session_token \notin DOMAIN r.tokens
                  /\ r.balance[old.data.authority]
                         = balance[old.data.authority] + old.lamports
                  /\ old.lamports = Rent
                  /\ create_session(after, Recreate(old.data), now).err = "Ok"
                  /\ \A x \in CreateSessionCalls(now) :
                         CallAddress(x) = c.session_token =>
                             create_session(after, x, now).err # "AccountAlreadyInUse"
                  /\ \A x \in CreateSessionWithPayerCalls(now) :
                         CallAddress(x) = c.session_token =>
                             create_session_with_payer(after, x, now).err
                                 # "AccountAlreadyInUse"

\* a revocation has just destroyed a record
C4_Witness ==
    /\ lastCall.op = "revoke_session"
    /\ lastCall.result = "Ok"
    /\ lastCall.account[1].key \notin DOMAIN tokens
    /\ balance[lastCall.account[1].data.authority] >= Rent

----------------------------------------------------------------------------
\* C5: is_valid fails with InvalidToken whenever the address re-derived from
\* the context's accessors differs from the address at which the presented
\* token record resides, whatever the record's fields and expiry are.
C5_AddressMismatchIsInvalidToken ==
    \A s \in Sessions(CurrentLedger), t \in Instants :
        (s.session_token # None /\ ClaimedAddress(s) # s.session_token[1].key)
        => is_valid(s, t) = "Err(InvalidToken)"

\* is_valid has just refused a context although a live, unexpired record
\* exists at another address than the one the context claims
C5_Witness ==
    /\ lastCall.op = "is_valid"
    /\ lastCall.result = "Err(InvalidToken)"
    /\ \E a \in DOMAIN tokens : now < tokens[a].data.valid_until

\* C6: is_valid on a context whose token accessor returns nothing fails with
\* NoToken, whatever the signer, authority and target-program accessors and
\* the current time are.
C6_NoTokenFirst ==
    \A s \in Sessions(CurrentLedger), t \in Instants :
        s.session_token = None => is_valid(s, t) = "Err(NoToken)"

\* is_valid has just answered NoToken while live records exist
C6_Witness ==
    /\ lastCall.op = "is_valid"
    /\ lastCall.result = "Err(NoToken)"
    /\ tokens # <<>>

\* C7: when a token is present and the address check passes, is_valid does
\* not fail and returns (now < valid_until): true strictly before valid_until,
\* false at valid_until and at every later instant.
C7_ValidIffBeforeExpiry ==
    \A s \in Sessions(CurrentLedger), t \in Instants :
        (s.session_token # None /\ ClaimedAddress(s) = s.session_token[1].key)
        => LET valid_until == s.session_token[1].data.valid_until
           IN  /\ t < valid_until => is_valid(s, t) = "Ok(true)"
               /\ t >= valid_until => is_valid(s, t) = "Ok(false)"

\* is_valid has just returned false, without error, at the very instant
\* valid_until of the presented token
C7_Witness ==
    /\ lastCall.op = "is_valid"
    /\ lastCall.result = "Ok(false)"
    /\ lastCall.account[1].data.valid_until = now

\* is_valid has just returned true for a token that is not yet expired
C7_WitnessTrue ==
    /\ lastCall.op = "is_valid"
    /\ lastCall.result = "Ok(true)"
    /\ now < lastCall.account[1].data.valid_until

----------------------------------------------------------------------------
\* C9: revoke_session is permissionless: for any live token and any caller,
\* naming the token's stored authority, it succeeds and credits the deposit to
\* that stored authority and to no other account; naming another authority
\* account it fails and leaves the token in place.
C9_RevokePermissionless ==
    \A c \in RevokeCalls :
        c.session_token \in DOMAIN tokens =>
            LET r == revoke_session(CurrentLedger, c)
                old == tokens[c.session_token]
            IN  /\ c.authority = old.data.authority =>
                      /\ r.err = "Ok"
                      /\ \A w \in Wallets :
                             r.balance[w] = balance[w]
                                 + (IF w = old.data.authority THEN old.lamports ELSE 0)
                /\ c.authority # old.data.authority =>
                      /\ r.err # "Ok"
                      /\ Unchanged(r)

\* a revocation has just succeeded on a token whose authority none of the
\* possible callers is
C9_Witness ==
    /\ lastCall.op = "revoke_session"
    /\ lastCall.result = "Ok"
    /\ lastCall.account[1].data.authority \notin Callers

\* C10: once the token of a triple is revoked, no is_valid call of a context
\* claiming that triple returns true until a creation at the triple succeeds:
\* while no record resides at the triple's address no such context is valid,
\* at any instant, and a successful revocation leaves no record there.
C10_RevokedIsCutOff ==
    /\ \A s \in Sessions(CurrentLedger), t \in Instants :
           ClaimedAddress(s) \notin DOMAIN tokens
           => is_valid(s, t) \in {"Err(NoToken)", "Err(InvalidToken)"}
    /\ \A c \in RevokeCalls :
           LET r == revoke_session(CurrentLedger, c)
           IN  r.err = "Ok" =>
                 \A s \in Sessions(Ledger(r.tokens, r.balance)), t \in Instants :
                     ClaimedAddress(s) = c.session_token
                     => is_valid(s, t) \in {"Err(NoToken)", "Err(InvalidToken)"}

\* a revocation has just destroyed a token whose valid_until is still ahead
C10_Witness ==
    /\ lastCall.op = "revoke_session"
    /\ lastCall.result = "Ok"
    /\ now < lastCall.account[1].data.valid_until
    /\ lastCall.account[1].key \notin DOMAIN tokens

----------------------------------------------------------------------------
GameOps ==
    {"start_game", "update_stats", "use_revive", "end_game", "submit_score", "init_player"}

\* C8: every game system handler performs the session validation check before
\* it does any work, so a call whose check fails (NoToken, InvalidToken) never
\* changes the components.
C8_FailedCheckPreventsMutation ==
    [][(/\ lastCall'.op \in GameOps
        /\ lastCall'.session \in {"Err(NoToken)", "Err(InvalidToken)"})
       => UNCHANGED gvars]_vars

----------------------------------------------------------------------------
\* the call passes account validation and the validity bound, asks for a
\* top-up, and the payer, having paid the deposit, cannot cover the amount
TransferFails(x) ==
    /\ AccountsValid(x)
    /\ RequestedValidUntil(x.c) <= now + MAX_VALIDITY
    /\ unwrap_or(x.c.top_up, FALSE)
    /\ balance[x.c.payer] - Rent < TopUpAmount(x.c.lamports)

\* C11: creation is atomic with its top-up transfer: when top_up is true and
\* the funding transfer fails because the payer cannot cover the amount, the
\* whole creation fails, no record exists at the derived address, and the
\* balances of payer, authority and session signer are as before the call.
C11_FailedTopUpLeavesNothing ==
    LET P(x) == TransferFails(x)
                => /\ x.r.err = "InsufficientFunds"
                   /\ CallAddress(x.c) \notin DOMAIN x.r.tokens
                   /\ x.r.tokens = tokens
                   /\ \A k \in {x.c.payer, x.c.authority, x.c.session_signer} :
                          x.r.balance[k] = balance[k]
    IN  AllCreations(P)

\* a payer-funded creation has just failed in its funding transfer: every
\* payer of such a call can pay the deposit, so the failure is the top-up's,
\* and the call still fails the same way in the state it left untouched
C11_Witness ==
    /\ lastCall.op = "create_session_with_payer"
    /\ lastCall.result = "InsufficientFunds"
    /\ \A c \in CreateSessionWithPayerCalls(now) : balance[c.payer] >= Rent
    /\ \E c \in CreateSessionWithPayerCalls(now) :
           /\ TransferFails(Creation("create_session_with_payer", c))
           /\ create_session_with_payer(CurrentLedger, c, now).err = "InsufficientFunds"

----------------------------------------------------------------------------
\* C12: in create_session_with_payer with payer different from authority the
\* storage deposit, and the top-up when top_up is true, is debited from the
\* payer and the authority's balance is unchanged, while the record's
\* authority field is the authority, not the payer; in create_session both
\* are debited from the authority.
C12_PayerFundsAuthorityOwns ==
    LET P(x) ==
            x.r.err = "Ok"
            => /\ x.r.tokens[CallAddress(x.c)].data.authority = x.c.authority
               /\ x.r.tokens[CallAddress(x.c)].lamports = Rent
               /\ IF x.op = "create_session_with_payer" /\ x.c.payer # x.c.authority
                  THEN /\ x.r.balance[x.c.payer] =
                              balance[x.c.payer] - Rent - RequestedTopUp(x.c)
                       /\ x.r.balance[x.c.authority] = balance[x.c.authority]
                       /\ x.r.tokens[CallAddress(x.c)].data.authority # x.c.payer
                  ELSE x.r.balance[x.c.authority] =
                           balance[x.c.authority] - Rent - RequestedTopUp(x.c)
    IN  AllCreations(P)

\* a payer-funded creation has just succeeded for an authority that is not
\* the payer and that has never paid or received anything
C12_Witness ==
    /\ lastCall.op = "create_session_with_payer"
    /\ lastCall.result = "Ok"
    /\ lastCall.account[1].data.authority \notin Payers
    /\ balance[lastCall.account[1].data.authority] =
           InitBalance[lastCall.account[1].data.authority]
    /\ \E p \in Payers : balance[p] < InitBalance[p]

----------------------------------------------------------------------------
\* C13: when the caller supplies no valid_until the created record has
\* valid_until = now + 3600 seconds, now read at the creation call; when the
\* caller supplies no top_up it is false and no funding transfer is made, so
\* the session signer's balance is unchanged by the creation.
C13_Defaults ==
    LET P(x) ==
            x.r.err = "Ok"
            => /\ x.c.valid_until = None
                  => x.r.tokens[CallAddress(x.c)].data.valid_until = now + 3600
               /\ x.c.top_up = None
                  => /\ x.r.balance[x.c.session_signer] = balance[x.c.session_signer]
                     /\ x.r.balance[x.c.payer] = balance[x.c.payer] - Rent
    IN  AllCreations(P)

\* a creation with neither argument supplied has just succeeded: the record
\* expires one hour from now and the session signer has received nothing
C13_Witness ==
    /\ lastCall.op \in {"create_session", "create_session_with_payer"}
    /\ lastCall.result = "Ok"
    /\ lastCall.account[1].data.valid_until = now + 3600
    /\ balance[lastCall.account[1].data.session_signer] = 0

----------------------------------------------------------------------------
\* the funding amount of a call: the explicit one when given, 1/100 of
\* 1,000,000,000 lamports otherwise, nothing unless top_up is true
FundingAmount(c) ==
    IF c.top_up = Some(TRUE)
    THEN (IF c.lamports = None THEN 10000000 ELSE c.lamports[1])
    ELSE 0

\* C14: a successful creation with top_up = true increases the session
\* signer's balance by exactly the funding amount and decreases the payer's
\* by the same amount on top of the deposit; the amount is the explicit one
\* when given and 10,000,000 lamports otherwise; with top_up = false no
\* transfer is made even when a funding amount is supplied.
C14_TopUpAmount ==
    LET P(x) ==
            x.r.err = "Ok"
            => /\ x.r.balance[x.c.session_signer] =
                      balance[x.c.session_signer] + FundingAmount(x.c)
               /\ x.r.balance[x.c.payer] =
                      balance[x.c.payer] - Rent - FundingAmount(x.c)
    IN  /\ AllCreations(P)
        /\ 10000000 * 100 = LAMPORTS_PER_SOL

\* a creation with top_up = true has just succeeded and the session signer
\* holds an explicit amount, a default amount, or both
C14_Witness ==
    /\ lastCall.op \in {"create_session", "create_session_with_payer"}
    /\ lastCall.result = "Ok"
    /\ balance[lastCall.account[1].data.session_signer]
           \in {ExplicitLamports, 10000000, ExplicitLamports + 10000000}

----------------------------------------------------------------------------
CreationOps == {"create_session", "create_session_with_payer"}

\* C15: a token record is immutable: in every step of create_session,
\* create_session_with_payer, revoke_session, is_valid and of the clock, a
\* token that is live before and after the step has the same four fields and
\* the same deposit; a token that appears is the one a successful creation
\* has just written; validation and the clock write nothing.
C15_RecordImmutable ==
    [][/\ \A a \in DOMAIN tokens \cap DOMAIN tokens' : tokens'[a] = tokens[a]
       /\ \A a \in DOMAIN tokens' \ DOMAIN tokens :
              /\ lastCall'.op \in CreationOps
              /\ lastCall'.account = Some([key |-> a, data |-> tokens'[a].data])
       /\ lastCall'.op \in {"is_valid", "tick"} => tokens' = tokens /\ balance' = balance
      ]_vars

\* a live token has been validated after the clock has advanced and while a
\* second token was created beside it
C15_Witness ==
    /\ lastCall.op = "is_valid"
    /\ lastCall.result \in {"Ok(true)", "Ok(false)"}
    /\ now > GenesisTime
    /\ Cardinality(DOMAIN tokens) >= 2

----------------------------------------------------------------------------
\* C16: creation requires the signatures of the authority and the session
\* signer, and of the payer in create_session_with_payer: a creation call
\* lacking any of them fails and leaves records and balances as they were,
\* and every token that becomes live was written by a creation call that its
\* stored authority and its stored session signer signed.
C16_CreationNeedsSignatures ==
    /\ [](LET P(x) == ~(RequiredSigners(x) \subseteq x.c.signers)
                      => x.r.err # "Ok" /\ Unchanged(x.r)
          IN  AllCreations(P))
    /\ [][\A a \in DOMAIN tokens' \ DOMAIN tokens :
              \E c \in CreateSessionCalls(now) \cup CreateSessionWithPayerCalls(now) :
                  /\ CallAddress(c) = a
                  /\ c.authority = tokens'[a].data.authority
                  /\ c.session_signer = tokens'[a].data.session_signer
                  /\ {c.authority, c.session_signer, c.payer} \subseteq c.signers
                  /\ \/ /\ c.payer = c.authority
                        /\ create_session(CurrentLedger, c, now).tokens = tokens'
                     \/ create_session_with_payer(CurrentLedger, c, now).tokens = tokens'
      ]_vars

\* a creation has just been rejected for a missing signature
C16_Witness ==
    /\ lastCall.op \in CreationOps
    /\ lastCall.result = "AccountNotSigner"
    /\ \E c \in CreateSessionCalls(now) \cup CreateSessionWithPayerCalls(now) :
           /\ ~({c.authority, c.session_signer, c.payer} \subseteq c.signers)
           /\ CallAddress(c) \notin DOMAIN tokens
           /\ balance[c.payer] >= Rent

----------------------------------------------------------------------------
\* the live tokens whose valid_until has passed
Expired == {a \in DOMAIN tokens : tokens[a].data.valid_until <= now}

\* C17: a token is destroyed only by revoke_session: passing valid_until does
\* not remove the record; a token whose valid_until has passed still occupies
\* its address with its deposit, every creation at its triple fails, and a
\* record disappears only in a step of a successful revoke_session.
C17_OnlyRevokeDestroys ==
    /\ [](/\ \A a \in Expired : tokens[a].lamports = Rent
          /\ LET P(x) == CallAddress(x.c) \in Expired
                          => x.r.err # "Ok" /\ Unchanged(x.r)
             IN  AllCreations(P))
    /\ [][\A a \in DOMAIN tokens \ DOMAIN tokens' :
              /\ lastCall'.op = "revoke_session"
              /\ lastCall'.result = "Ok"
              /\ lastCall'.account = Some([key |-> a, data |-> tokens[a].data])
      ]_vars

\* a creation at the triple of a token whose valid_until passed before the
\* clock last advanced has just failed because the address is occupied
C17_Witness ==
    /\ lastCall.op \in CreationOps
    /\ lastCall.result = "AccountAlreadyInUse"
    /\ now > GenesisTime
    /\ \E a \in Expired : tokens[a].data.valid_until < GenesisTime
    /\ DOMAIN tokens = Expired

----------------------------------------------------------------------------
\* the address of a triple in a given addressing domain: the namespace tag,
\* then the keys in the order target_program, session_signer, authority
DerivedIn(domain, data) ==
    find_program_address(
        <<"session_token", data.target_program, data.session_signer, data.authority>>,
        domain)

\* the context that claims the stored triple of the live token at address a
\* and presents that token
OwnContext(a) ==
    [session_token |-> Some(Account(CurrentLedger, a)),
     session_signer |-> tokens[a].data.session_signer,
     session_authority |-> tokens[a].data.authority,
     target_program |-> tokens[a].data.target_program]

\* creation, revocation and validation agree on the address of every live
\* token, the address being the one derived in the given domain
SameDerivation(Domain(_)) ==
    /\ \A a \in DOMAIN tokens : a = DerivedIn(Domain(tokens[a].data), tokens[a].data)
    /\ LET P(x) == x.r.err = "Ok"
                    => DOMAIN x.r.tokens \ DOMAIN tokens = {DerivedIn(Domain(x.c), x.c)}
       IN  AllCreations(P)
    /\ \A a \in DOMAIN tokens :
           /\ is_valid(OwnContext(a), now) \in {"Ok(true)", "Ok(false)"}
           /\ \A k \in Callers :
                  revoke_session(CurrentLedger,
                                 [session_token |-> DerivedIn(Domain(tokens[a].data),
                                                              tokens[a].data),
                                  authority |-> tokens[a].data.authority,
                                  caller |-> k]).err = "Ok"

----------------------------------------------------------------------------
ClaimedTriple(s) == <<s.target_program, s.session_signer, s.session_authority>>

\* C19: in every reachable state each live token resides at the address
\* derived from its own stored (target_program, session_signer, authority),
\* and whenever is_valid returns without error the presented token's stored
\* triple equals the triple claimed by the context's accessors: a token
\* issued for another authority, signer or target program is never accepted.
C19_AcceptedTokenMatchesClaim ==
    /\ \A a \in DOMAIN tokens : a = DerivedIn(ID, tokens[a].data)
    /\ \A s \in Sessions(CurrentLedger) :
           is_valid(s, now) \in {"Ok(true)", "Ok(false)"}
           => TripleOf(s.session_token[1].data) = ClaimedTriple(s)
    /\ \A s \in Sessions(CurrentLedger) :
           (s.session_token # None /\ TripleOf(s.session_token[1].data) # ClaimedTriple(s))
           => is_valid(s, now) = "Err(InvalidToken)"

\* two tokens of different authorities are live, one of them has just been
\* accepted, and a context presenting the other one for the same claim is
\* rejected
C19_Witness ==
    /\ lastCall.op = "is_valid"
    /\ lastCall.result = "Ok(true)"
    /\ \E s \in Sessions(CurrentLedger) :
           /\ s.session_token # None
           /\ s.session_token[1].key # lastCall.account[1].key
           /\ ClaimedTriple(s) = TripleOf(lastCall.account[1].data)
           /\ is_valid(s, now) = "Err(InvalidToken)"

----------------------------------------------------------------------------
\* C20: under a non-decreasing clock every live token satisfies
\* valid_until <= now + 7 days in every reachable state, so a context is
\* reported valid only at an instant before a valid_until that is itself at
\* most 7 days (604800 seconds) after the creation of the token.
C20_ValidityBounded ==
    /\ \A a \in DOMAIN tokens : tokens[a].data.valid_until <= now + 604800
    /\ \A s \in Sessions(CurrentLedger) :
           is_valid(s, now) = "Ok(true)"
           => /\ now < s.session_token[1].data.valid_until
              /\ s.session_token[1].data.valid_until <= now + 604800
    /\ LET P(x) == x.r.err = "Ok"
                    => x.r.tokens[CallAddress(x.c)].data.valid_until <= now + 604800
       IN  AllCreations(P)

\* a token created with the longest validity allowed is live and reported
\* valid after the clock has advanced
C20_Witness ==
    /\ lastCall.op = "is_valid"
    /\ lastCall.result = "Ok(true)"
    /\ lastCall.account[1].data.valid_until = GenesisTime + 604800
    /\ now > GenesisTime

----------------------------------------------------------------------------
\* the result r of a system leaves the components as they are
SameComponents(r) ==
    /\ r.game_session = game_session
    /\ r.player = player
    /\ r.leaderboard = leaderboard

\* on a session that is not active use_revive fails with SessionNotActive and
\* update_stats fails with the error UpdateError names for its argument, both
\* without effect
InactiveSessionRejects(UpdateError(_)) ==
    ~game_session.is_active
    => (/\ use_revive(CurrentComponents, <<>>).err = "SessionNotActive"
        /\ SameComponents(use_revive(CurrentComponents, <<>>))
        /\ \A bytes \in UpdateStatsBytes :
               /\ update_stats(CurrentComponents, bytes).err = UpdateError(bytes)
               /\ SameComponents(update_stats(CurrentComponents, bytes)))

\* end_game leaves the session inactive, an update_stats or use_revive call
\* on an inactive session changes nothing, and only start_game makes a
\* session active again
InactiveUntilStarted ==
    /\ (lastCall'.op = "end_game")
       => (lastCall'.result = "Ok" /\ ~game_session'.is_active)
    /\ (~game_session.is_active /\ lastCall'.op \in {"update_stats", "use_revive"})
       => (lastCall'.result # "Ok" /\ UNCHANGED gvars)
    /\ (~game_session.is_active /\ game_session'.is_active)
       => (lastCall'.op = "start_game")

\* C21 (as stated): update_stats and use_revive fail with SessionNotActive,
\* leaving the game session and the player unchanged, whenever
\* game_session.is_active is false; end_game sets is_active to false, so
\* after end_game no update_stats or use_revive succeeds on that session
\* until start_game is executed on it again.
C21_AsStated ==
    /\ [](LET UpdateError(bytes) == "SessionNotActive"
          IN  InactiveSessionRejects(UpdateError))
    /\ [][InactiveUntilStarted]_vars

\* C21: whenever game_session.is_active is false use_revive fails with
\* SessionNotActive and update_stats fails with SessionNotActive when its
\* argument decodes and with InvalidArguments when it does not, all leaving
\* the components unchanged; end_game sets is_active to false, so after
\* end_game no update_stats or use_revive succeeds on that session until
\* start_game is executed on it again.
C21_InactiveSessionRejects ==
    /\ [](LET UpdateError(bytes) ==
                  IF UpdateStatsArgs(bytes) = None THEN "InvalidArguments"
                  ELSE "SessionNotActive"
          IN  InactiveSessionRejects(UpdateError))
    /\ [][InactiveUntilStarted]_vars

\* after a game was ended, an update_stats or use_revive call on the inactive
\* session has just failed with SessionNotActive
C21_Witness ==
    /\ lastCall.op \in {"update_stats", "use_revive"}
    /\ lastCall.result = "SessionNotActive"
    /\ ~game_session.is_active
    /\ player.games_played > 0
    /\ player.last_character_id = game_session.character_id

----------------------------------------------------------------------------
(* The game systems applied to a player that holds revives.  Player.revives *)
(* is "purchasable": it is granted from outside the six systems, so the      *)
(* initial states draw it from 0..MaxRevives; the session is one that        *)
(* start_game has started for vitalis.                                       *)

MaxRevives == 2

ReviveInit ==
    /\ tokens = (SessionTokenAddress("game", "sess", "alice") :>
                    [data |-> SessionToken("alice", "game", "sess",
                                           GenesisTime + DEFAULT_VALIDITY),
                     lamports |-> Rent])
    /\ balance = [InitBalance EXCEPT !["alice"] = @ - Rent]
    /\ now = GenesisTime
    /\ lastCall = [op |-> "init", result |-> "Ok", account |-> None]
    /\ game_session =
           start_game(Components(GameSession, Player, LeaderboardEntry),
                      u32_to_le_bytes(7) \o vitalis, GenesisTime).game_session
    /\ \E n \in 0..MaxRevives : player = [Player EXCEPT !.revives = n]
    /\ leaderboard = LeaderboardEntry

ReviveSpec == ReviveInit /\ [][GameNext]_vars

\* the error use_revive reports for the current components: the three
\* require! checks in their order
ReviveError ==
    IF ~game_session.is_active THEN "SessionNotActive"
    ELSE IF ~game_session.is_dead THEN "NotDead"
    ELSE IF player.revives = 0 THEN "NoRevives"
    ELSE "Ok"

\* what a successful use_revive leaves behind
Revived(r) ==
    /\ r.player = [player EXCEPT !.revives = player.revives - 1]
    /\ r.game_session = [game_session EXCEPT !.is_dead = FALSE,
                                              !.hp = game_session.max_hp \div 2]
    /\ r.leaderboard = leaderboard

ReviveContract ==
    LET r == use_revive(CurrentComponents, <<>>)
    IN  /\ player.revives >= 0
        /\ r.err = ReviveError
        /\ (r.err = "Ok") <=> (/\ game_session.is_active
                               /\ game_session.is_dead
                               /\ player.revives > 0)
        /\ IF r.err = "Ok" THEN Revived(r) ELSE SameComponents(r)

ReviveStep ==
    /\ player'.revives <= player.revives
    /\ (lastCall'.op = "use_revive")
       => /\ lastCall'.result = ReviveError
          /\ IF ReviveError = "Ok"
             THEN Revived(Components(game_session', player', leaderboard'))
             ELSE UNCHANGED gvars

\* C22: use_revive succeeds exactly when the session is active, the player is
\* dead and player.revives > 0; a success takes exactly one revive, clears
\* is_dead and sets hp to max_hp / 2 (integer division) and changes nothing
\* else; every other call fails with SessionNotActive, NotDead or NoRevives,
\* checked in that order, and changes nothing; revives is never below 0 and
\* no step of any system increases it.
C22_ReviveContract == [](ReviveContract) /\ [][ReviveStep]_vars

\* a dead vitalis has just been revived with an odd max_hp
C22_Witness ==
    /\ lastCall.op = "use_revive"
    /\ lastCall.result = "Ok"
    /\ game_session.is_active
    /\ ~game_session.is_dead
    /\ game_session.max_hp % 2 = 1
    /\ game_session.hp = game_session.max_hp \div 2
    /\ player.revives = MaxRevives - 1

----------------------------------------------------------------------------
Max(a, b) == IF a >= b THEN a ELSE b
Min(a, b) == IF a <= b THEN a ELSE b

\* the player's records after an end_game on the current components
RecordsAfterEndGame(p) ==
    /\ p.best_wave = Max(player.best_wave, game_session.wave)
    /\ p.best_time = Max(player.best_time, game_session.time_survived)
    /\ p.total_gold = Min(player.total_gold + game_session.gold_earned, MaxTotalGold)
    /\ p.games_played = Min(player.games_played + 1, MaxGamesPlayed)

EndGameContract ==
    LET r == end_game(CurrentComponents, <<>>)
    IN  /\ r.err = "Ok"
        /\ RecordsAfterEndGame(r.player)

RunOps == {"start_game", "update_stats", "use_revive", "end_game"}

EndGameStep ==
    /\ (lastCall'.op = "end_game")
       => (lastCall'.result = "Ok" /\ RecordsAfterEndGame(player'))
    /\ (lastCall'.op \in RunOps)
       => /\ player'.best_wave >= player.best_wave
          /\ player'.best_time >= player.best_time

\* C23: end_game always succeeds, active session or not, and leaves
\* best_wave = max(previous best_wave, session.wave), best_time =
\* max(previous best_time, session.time_survived), total_gold increased by
\* session.gold_earned and games_played by 1, both saturating; in every
\* start_game, update_stats, use_revive or end_game step best_wave and
\* best_time do not decrease.
C23_EndGameRecords == [](EndGameContract) /\ [][EndGameStep]_vars

\* a worse run has just been ended on top of a better record, with both
\* counters at their caps
C23_Witness ==
    /\ lastCall.op = "end_game"
    /\ lastCall.result = "Ok"
    /\ game_session.wave < player.best_wave
    /\ game_session.time_survived < player.best_time
    /\ player.games_played = MaxGamesPlayed
    /\ player.total_gold = MaxTotalGold

====
